---- MODULE Spec2Model ----
(***************************************************************************)
(* A model of GrokVideoPlugin (src/main.py).                               *)
(*                                                                         *)
(* Nine specifications over the same variables:                            *)
(*                                                                         *)
(*  Spec     the command layer: concurrently running cmd_generate_video    *)
(*           handlers of users in groups and direct chats, the access      *)
(*           check (_check_group_access), the in-flight map                *)
(*           (_processing_tasks) and the background tasks                  *)
(*           (_async_generate_video) on the paths where every send         *)
(*           succeeds.  The plugin runs on one asyncio event loop, so an   *)
(*           action is the code between two suspension points (an await    *)
(*           that really suspends, or a yield).                            *)
(*  SpecRate the rate limiter over time: commands arriving at              *)
(*           _check_group_access while the clock advances.                 *)
(*  SpecQuota  commands of one user over time up to the start of their      *)
(*           tasks: access check, busy check and image check.              *)
(*  SpecTask the background task in full: every way the generation, the    *)
(*           delivery and the sends of _async_generate_video can end, for  *)
(*           concurrent commands of one user.                              *)
(*  FairSpecTask  SpecTask with weak fairness on the steps whose awaited   *)
(*           call is assumed to return or raise.                           *)
(*  SpecApi  one execution of _call_grok_api: the retry loop, the status   *)
(*           classification and the line-by-line stream reader.            *)
(*  SpecExtract  one application of _extract_video_url_from_response or    *)
(*           _try_structured_extraction to a response object.              *)
(*  SpecText one application of _try_content_extraction to a text.         *)
(*  SpecCore one execution of _generate_video_core: the checks, the call   *)
(*           of _call_grok_api (all of SpecApi) and the optional download. *)
(***************************************************************************)
EXTENDS Integers, Sequences, FiniteSets, TLC

\* ------------------------------------------------------------------ bounds
\* commands that reach the rate limiter (SpecRate)
NumHandlers == 3
\* commands that run concurrently through the in-flight guard (Spec, SpecTask)
NumRaceHandlers == 2
MaxTime == 3
MaxCallsBound == 2
WindowSeconds == 2

\* ------------------------------------------------------- the command layer
Handlers == 1..NumHandlers
Users == {"u1", "u2"}
Groups == {"g1", "g2"}
\* event.get_group_id() is empty (or raises) in a direct chat
NoGroup == "direct"
\* config "group_list": g1 is listed, g2 is not
group_list == {"g1"}

VARIABLES
    group_control_mode,     \* config: "off" | "whitelist" | "blacklist"
    rate_limit_enabled,     \* config
    rate_limit_max_calls,   \* config
    rate_limit_window_seconds, \* config
    now,                    \* time.time()
    rate_limit_bucket,      \* dict group_id -> [window_start, count]
    rate_limit_locks,       \* dict group_id -> the lock: its creator and whether it is held
    processing_tasks,       \* dict user_id -> task_id
    pc,                     \* where each command handler / its task stands
    huser,                  \* event.get_sender_id() of each command
    hgroup,                 \* event.get_group_id() of each command
    hres,                   \* what the command handler answered
    tres,                   \* what _generate_video_core gave the task
    sent,                   \* messages the task has issued with event.send
    cleanup_called,         \* tasks that called _cleanup_video_file
    released,               \* what the task's finally block did
    upstream,               \* tasks whose core called the upstream API
    checkLog                \* history of rate-limit decisions and the lock each ran under

cmdVars == <<group_control_mode, rate_limit_enabled, rate_limit_max_calls,
             rate_limit_window_seconds, now, rate_limit_bucket, rate_limit_locks,
             processing_tasks, pc, huser, hgroup, hres, tres, sent,
             cleanup_called, released, upstream, checkLog>>

\* ---- one execution of _call_grok_api
VARIABLES
    api_key,                \* config: TRUE when a key is configured
    max_retry_attempts,     \* config
    timeout_seconds,        \* config
    apc,                    \* where the call stands
    attempt,                \* the loop variable of "for attempt in range(...)"
    status,                 \* resp.status_code of the current attempt, 0 before the response
    accumulated,            \* the text accumulator of the current attempt
    stream,                 \* the lines the current response carries, in order (none before it)
    nlines,                 \* lines read from the current response
    result,                 \* the (url, error) pair the call returned
    trace,                  \* history: "attempt", "fail", "delay", "end" (of a stream) in order
    failures,               \* what each failed attempt raised, in order
    lost                    \* history: TRUE once an attempt that had received text failed

apiVars == <<api_key, max_retry_attempts, timeout_seconds, apc, attempt, status,
             accumulated, stream, nlines, result, trace, failures, lost>>

\* ---- one application of the extractors to a whole response object
VARIABLES
    response,               \* the response object given to the extractor
    extracted,              \* the (url, error) pair the extractor returned
    epc                     \* "input" before the extractor ran, "done" after

extVars == <<response, extracted, epc>>

\* ---- one execution of _generate_video_core
VARIABLES
    enabled,                \* config
    save_video_enabled,     \* config
    cpc,                    \* where the core stands
    api_result,             \* the (url, error) pair _call_grok_api gave the core
    download_tried,         \* TRUE once _download_video has been called
    core_result             \* the (url, path, error) triple the core returned

coreVars == <<enabled, save_video_enabled, cpc, api_result, download_tried,
              core_result>>

vars == <<cmdVars, apiVars, extVars, coreVars>>

EmptyDict == [x \in {} |-> 0]

DictPut(d, k, v) ==
    [x \in (DOMAIN d) \cup {k} |-> IF x = k THEN v ELSE d[x]]

DictDel(d, k) ==
    [x \in (DOMAIN d) \ {k} |-> d[x]]

\* pc values of a background task that is started and not yet finished
TaskRunning ==
    {"task_core", "task_send_err", "task_deliver", "task_warn_timeout",
     "task_warn_ws", "task_send_fail", "task_send_exc"}

AccessErrors == {"not_authorized", "restricted", "rate_limited"}

\* the whitelist / blacklist test of _check_group_access
GroupDenied(g) ==
    IF group_control_mode = "whitelist" /\ g \notin group_list THEN "not_authorized"
    ELSE IF group_control_mode = "blacklist" /\ g \in group_list THEN "restricted"
    ELSE "ok"

RateLimitAppliesAlways(g) ==
    rate_limit_enabled

\* the limiter runs only for a group (inside "if group_id:") and when enabled
RateLimitApplies(g) ==
    g # NoGroup /\ rate_limit_enabled

WindowExpiredLate(window_start) ==
    now - window_start > rate_limit_window_seconds

\* "if now - window_start >= self.rate_limit_window_seconds"
WindowExpired(window_start) ==
    now - window_start >= rate_limit_window_seconds

NextCountLost(count) ==
    count

\* "bucket[...] = window_start, count + 1"
NextCount(count) ==
    count + 1

\* "if count >= self.rate_limit_max_calls"
OverLimit(count) ==
    count >= rate_limit_max_calls

LocksAlwaysNew(h, g) ==
    DictPut(rate_limit_locks, g, [id |-> h, locked |-> FALSE])

\* "if group_id not in self._rate_limit_locks: ... = asyncio.Lock()": the lock
\* table after the lazy creation; a lock is named by the handler that made it
LocksAfterGet(h, g) ==
    IF g \in DOMAIN rate_limit_locks
    THEN rate_limit_locks
    ELSE DictPut(rate_limit_locks, g, [id |-> h, locked |-> FALSE])

BucketOnRejectExtendsWindow(g, count) ==
    DictPut(rate_limit_bucket, g, [window_start |-> now, count |-> count])

\* "if count >= self.rate_limit_max_calls: return ...": the return comes before
\* the only write of the table, so the table is as it was
BucketOnReject(g, count) ==
    rate_limit_bucket

\* _check_group_access: no await inside it ever suspends (the lock is only
\* taken where nothing awaits, so it is always free: "async with" acquires it
\* without yielding and every way out of the block releases it), hence one
\* atomic step.  Gives the answer, the two tables as the call leaves them, and
\* the lock the check ran under.
CheckGroupAccess(h, g) ==
    LET same == [err |-> "ok", bucket |-> rate_limit_bucket,
                 locks |-> rate_limit_locks, checked |-> FALSE, lock |-> 0]
    IN
    IF g # NoGroup /\ GroupDenied(g) # "ok"
    THEN [same EXCEPT !.err = GroupDenied(g)]
    ELSE IF ~RateLimitApplies(g) THEN same
    ELSE
        LET locks == LocksAfterGet(h, g)
            bucket == IF g \in DOMAIN rate_limit_bucket
                      THEN rate_limit_bucket[g]
                      ELSE [window_start |-> now, count |-> 0]
            reset == WindowExpired(bucket.window_start)
            window_start == IF reset THEN now ELSE bucket.window_start
            count == IF reset THEN 0 ELSE bucket.count
        IN
        IF OverLimit(count)
        THEN [err |-> "rate_limited", bucket |-> BucketOnReject(g, count),
              locks |-> locks, checked |-> TRUE, lock |-> locks[g].id]
        ELSE [err |-> "ok",
              bucket |-> DictPut(rate_limit_bucket, g,
                                 [window_start |-> window_start,
                                  count |-> NextCount(count)]),
              locks |-> locks, checked |-> TRUE, lock |-> locks[g].id]

IsBusyNever(u) ==
    FALSE

\* the busy check of cmd_generate_video: "if user_id in self._processing_tasks"
IsBusy(u) ==
    u \in DOMAIN processing_tasks

ReleaseTaskAnyId(u, task_id) ==
    IF u \in DOMAIN processing_tasks
    THEN DictDel(processing_tasks, u)
    ELSE processing_tasks

\* the finally block of _async_generate_video
ReleaseTask(u, task_id) ==
    IF u \in DOMAIN processing_tasks /\ processing_tasks[u] = task_id
    THEN DictDel(processing_tasks, u)
    ELSE processing_tasks

ReleaseKind(u, task_id) ==
    IF u \notin DOMAIN processing_tasks THEN "absent"
    ELSE IF processing_tasks[u] = task_id THEN "deleted"
    ELSE "kept_other"

MessageAtAllSoft(p) ==
    CASE p = "task_send_err" -> {"error"}
      [] p = "task_deliver" -> {"video"}
      [] p \in {"task_warn_timeout", "task_warn_ws", "task_send_fail"} -> {"soft_warning"}
      [] p = "task_send_exc" -> {"problem"}
      [] OTHER -> {}

\* the message each send of the task carries
MessageAt(p) ==
    CASE p = "task_send_err" -> {"error"}
      [] p = "task_deliver" -> {"video"}
      [] p = "task_warn_timeout" -> {"soft_warning"}
      [] p = "task_warn_ws" -> {"soft_warning"}
      [] p = "task_send_fail" -> {"hard_failure"}
      [] p = "task_send_exc" -> {"problem"}
      [] OTHER -> {}

TaskGotoNoFinally(h, p) ==
    /\ pc' = [pc EXCEPT ![h] = p]
    /\ sent' = [sent EXCEPT ![h] = @ \cup MessageAt(p)]
    /\ IF p = "task_done" /\ pc[h] # "task_send_exc"
       THEN /\ processing_tasks' = ReleaseTask(huser[h], h)
            /\ released' = [released EXCEPT ![h] = ReleaseKind(huser[h], h)]
       ELSE UNCHANGED <<processing_tasks, released>>

\* the task moves on to its next await (a send), or ends through finally
TaskGoto(h, p) ==
    /\ pc' = [pc EXCEPT ![h] = p]
    /\ sent' = [sent EXCEPT ![h] = @ \cup MessageAt(p)]
    /\ IF p = "task_done"
       THEN /\ processing_tasks' = ReleaseTask(huser[h], h)
            /\ released' = [released EXCEPT ![h] = ReleaseKind(huser[h], h)]
       ELSE UNCHANGED <<processing_tasks, released>>

\* ------------------------------------------------------------ bounds (API)
MaxAttemptsBound == 3
MaxLines == 2
\* pieces of a text given to the text extraction (SpecText)
MaxTokens == 2

\* ------------------------------------------------- the upstream call layer
\* config default of "timeout_seconds"
DefaultTimeout == 180
\* the error-body snippet is cut to this many characters
SnippetMax == 400
\* the status reported as an authorization failure
DeniedStatus == 403
OkStatus == 200

TimeoutChoices == {30, DefaultTimeout}
Statuses == {OkStatus, DeniedStatus, 500}
\* str(e) of the exceptions a request can raise
ExcDetails == {"e1", "e2"}
\* lengths of the error bodies the upstream can send
BodyLens == {0, SnippetMax + 1}
NoUrl == "none"
\* The pieces of text of the model and the characters they stand for.  Every
\* piece but "query" starts with a blank, so pieces join without running into
\* each other; "query" starts with "?" and so continues a URL that ends the
\* piece before it.
\*   txt       | see the clip|
\*   urlA      | https://cdn.example/a.mp4|
\*   urlB      | https://cdn.example/b.mp4|
\*   query     |?sig=1 |
\*   bareUp    | HTTPS://CDN.EXAMPLE/U.MP4 |
\*   tagV      | <video controls src="https://cdn.example/v.mp4"></video>|
\*   tagRel    | <video src="/files/a.mp4"></video>|
\*   tagNoMp4  | <video src="https://cdn.example/video"></video>|
\*   srcS      | <source src="https://cdn.example/s.mp4">|
\*   mdSp      | [clip](https://cdn.example/my clip.mp4)|
\*   mdRel     | [clip](/files/a.mp4)|
\*   mdRef     | [clip]: https://cdn.example/(1).mp4 |
Tokens ==
    {"txt", "urlA", "urlB", "query", "bareUp", "tagV", "tagRel", "tagNoMp4",
     "srcS", "mdSp", "mdRel", "mdRef"}

\* the text deltas a frame can carry
Fragments == {"txt", "urlA", "query"}

\* an error message: its kind and the values formatted into it
Msg(kind, secs, detail, st, snippet) ==
    [kind |-> kind, secs |-> secs, detail |-> detail, status |-> st, snippet |-> snippet]

NoError == Msg("none", 0, "", 0, 0)
\* "未配置API密钥"
NoKeyError == Msg("no_api_key", 0, "", 0, 0)
\* "API访问被拒绝，请检查密钥和权限"
DeniedError == Msg("denied", 0, "", 0, 0)
\* "API响应中未包含有效的视频URL"
NoUrlError == Msg("no_url", 0, "", 0, 0)
\* "所有重试均失败"
AllFailedError == Msg("all_retries_failed", 0, "", 0, 0)

Min(a, b) == IF a < b THEN a ELSE b

StatusErrorWholeBody(st, bodylen) == Msg("status", 0, "", st, bodylen)

\* f"API请求失败 (状态码: {status}): {snippet}" with snippet = body[:400]
StatusError(st, bodylen) == Msg("status", 0, "", st, Min(bodylen, SnippetMax))

TimeoutErrorDefault == Msg("timeout", DefaultTimeout, "", 0, 0)

\* f"请求超时 ({self.timeout_seconds}秒)"
TimeoutError == Msg("timeout", timeout_seconds, "", 0, 0)

\* f"请求异常: {str(e)}"
ExceptionError(e) == Msg("exception", 0, e, 0, 0)

\* what an awaited network call of an attempt can raise
Raised == {"timeout"} \cup ExcDetails

ErrorOf(x) == IF x = "timeout" THEN TimeoutError ELSE ExceptionError(x)

IsLastAttemptNever(a) ==
    FALSE

\* "if attempt == self.max_retry_attempts - 1"
IsLastAttempt(a) ==
    a = max_retry_attempts - 1

\* The candidate strings of the model and what the code's string tests see in
\* them: len(url), startswith(("http://", "https://")), endswith(".mp4"),
\* ".mp4" in url.lower(), and whether one of < > " ' \n \r \t occurs.
\*   urlA, urlB, urlS, urlV   "https://cdn.example/a.mp4" and the like
\*   urlAq, urlBq       "https://cdn.example/a.mp4?sig=1" and the like
\*   urlSp              "https://cdn.example/my clip.mp4"
\*   urlRef             "https://cdn.example/(1).mp4"
\*   urlUp              "HTTPS://CDN.EXAMPLE/U.MP4"
\*   urlShort           "http://a"
\*   urlNoMp4           "https://cdn.example/video"
\*   urlQuote           "https://cdn.example/a'b.mp4"
\*   urlFtp             "ftp://cdn.example/a.mp4"
\*   urlRel             "/files/a.mp4"
UrlShape(u) ==
    CASE u \in {"urlA", "urlB", "urlS", "urlV"} ->
            [len |-> 25, http |-> TRUE, ends_mp4 |-> TRUE, has_mp4 |-> TRUE,
             invalid_char |-> FALSE]
      [] u \in {"urlAq", "urlBq"} ->
            [len |-> 31, http |-> TRUE, ends_mp4 |-> FALSE, has_mp4 |-> TRUE,
             invalid_char |-> FALSE]
      [] u = "urlSp" ->
            [len |-> 31, http |-> TRUE, ends_mp4 |-> TRUE, has_mp4 |-> TRUE,
             invalid_char |-> FALSE]
      [] u = "urlRef" ->
            [len |-> 27, http |-> TRUE, ends_mp4 |-> TRUE, has_mp4 |-> TRUE,
             invalid_char |-> FALSE]
      [] u = "urlUp" ->
            [len |-> 25, http |-> FALSE, ends_mp4 |-> TRUE, has_mp4 |-> TRUE,
             invalid_char |-> FALSE]
      [] u = "urlShort" ->
            [len |-> 8, http |-> TRUE, ends_mp4 |-> FALSE, has_mp4 |-> FALSE,
             invalid_char |-> FALSE]
      [] u = "urlNoMp4" ->
            [len |-> 25, http |-> TRUE, ends_mp4 |-> FALSE, has_mp4 |-> FALSE,
             invalid_char |-> FALSE]
      [] u = "urlQuote" ->
            [len |-> 27, http |-> TRUE, ends_mp4 |-> TRUE, has_mp4 |-> TRUE,
             invalid_char |-> TRUE]
      [] u = "urlFtp" ->
            [len |-> 23, http |-> FALSE, ends_mp4 |-> TRUE, has_mp4 |-> TRUE,
             invalid_char |-> FALSE]
      [] u = "urlRel" ->
            [len |-> 12, http |-> FALSE, ends_mp4 |-> TRUE, has_mp4 |-> TRUE,
             invalid_char |-> FALSE]
      [] OTHER ->
            [len |-> 0, http |-> FALSE, ends_mp4 |-> FALSE, has_mp4 |-> FALSE,
             invalid_char |-> FALSE]

\* the strings a structured field can hold
FieldUrls == {"urlS", "urlShort", "urlNoMp4", "urlQuote", "urlFtp", "urlRel"}

\* _is_valid_video_url
IsValidVideoUrl(u) ==
    /\ UrlShape(u).len >= 10
    /\ UrlShape(u).http
    /\ UrlShape(u).ends_mp4 \/ UrlShape(u).has_mp4
    /\ ~UrlShape(u).invalid_char

\* What the patterns of the text extraction capture in one piece of text:
\*   video   group 1 of  <video[^>]*src=["']([^"'>]+)["'][^>]*>
\*   src     group 1 of  src=["']([^"'>]+\.mp4[^"'>]*)["']
\*   direct  the match of https?://[^\s<>"')\]\}]+\.mp4(?:\?[^\s<>"')\]\}]*)?
\*   link    group 1 of  !?\[[^\]]*\]\(([^\)]+\.mp4[^\)]*)\)
\*   ref     group 1 of  !?\[[^\]]*\]:\s*([^\s]+\.mp4[^\s]*)
\* all matched with re.IGNORECASE; open: the direct match runs to the end of
\* the piece, so that a query string that follows belongs to it.  No pattern
\* matches across two pieces except in that case.
NoMatch ==
    [video |-> NoUrl, src |-> NoUrl, direct |-> NoUrl, link |-> NoUrl,
     ref |-> NoUrl, open |-> FALSE]

TokenShape(t) ==
    CASE t \in {"urlA", "urlB"} -> [NoMatch EXCEPT !.direct = t, !.open = TRUE]
      [] t = "bareUp" -> [NoMatch EXCEPT !.direct = "urlUp"]
      [] t = "tagV" -> [NoMatch EXCEPT !.video = "urlV", !.src = "urlV", !.direct = "urlV"]
      [] t = "tagRel" -> [NoMatch EXCEPT !.video = "urlRel", !.src = "urlRel"]
      [] t = "tagNoMp4" -> [NoMatch EXCEPT !.video = "urlNoMp4"]
      [] t = "srcS" -> [NoMatch EXCEPT !.src = "urlS", !.direct = "urlS"]
      [] t = "mdSp" -> [NoMatch EXCEPT !.link = "urlSp"]
      [] t = "mdRel" -> [NoMatch EXCEPT !.link = "urlRel"]
      [] t = "mdRef" -> [NoMatch EXCEPT !.ref = "urlRef"]
      [] OTHER -> NoMatch

\* the pieces in which the substring tests "<video" in content and "src=" in
\* content succeed
HasVideoTag == {"tagV", "tagRel", "tagNoMp4"}
HasSrcAttr == {"tagV", "tagRel", "tagNoMp4", "srcS"}

\* a URL continued by the query string that follows it
WithQuery(u) ==
    CASE u = "urlA" -> "urlAq"
      [] u = "urlB" -> "urlBq"
      [] OTHER -> u

\* re.search(pattern, content): group 1 of the leftmost match of one pattern
RECURSIVE Search(_, _)
Search(text, pattern) ==
    IF text = <<>> THEN NoUrl
    ELSE IF TokenShape(Head(text))[pattern] # NoUrl THEN TokenShape(Head(text))[pattern]
    ELSE Search(Tail(text), pattern)

\* "for pattern in patterns: match = re.search(...); if match: ... if
\* self._is_valid_video_url(url): return url": the first pattern whose leftmost
\* match passes the validation
RECURSIVE FirstValidSearch(_, _)
FirstValidSearch(text, patterns) ==
    IF patterns = <<>> THEN NoUrl
    ELSE IF IsValidVideoUrl(Search(text, Head(patterns))) THEN Search(text, Head(patterns))
    ELSE FirstValidSearch(text, Tail(patterns))

\* _extract_from_html_tag
ExtractFromHtmlTag(text) ==
    IF ~(\E i \in 1..Len(text) : text[i] \in HasVideoTag)
       \/ ~(\E i \in 1..Len(text) : text[i] \in HasSrcAttr)
    THEN NoUrl
    ELSE FirstValidSearch(text, <<"video", "src">>)

\* re.findall(pattern, content) of _extract_direct_url: every match, left to right
RECURSIVE FindAllDirect(_)
FindAllDirect(text) ==
    IF text = <<>> THEN <<>>
    ELSE LET m == TokenShape(Head(text))
             u == IF m.open /\ Len(text) > 1 /\ text[2] = "query"
                  THEN WithQuery(m.direct) ELSE m.direct
         IN IF m.direct = NoUrl THEN FindAllDirect(Tail(text))
            ELSE <<u>> \o FindAllDirect(Tail(text))

\* "for url in matches: if self._is_valid_video_url(url): return url"
RECURSIVE FirstValid(_)
FirstValid(matches) ==
    IF matches = <<>> THEN NoUrl
    ELSE IF IsValidVideoUrl(Head(matches)) THEN Head(matches)
    ELSE FirstValid(Tail(matches))

\* _extract_direct_url
ExtractDirectUrl(text) ==
    FirstValid(FindAllDirect(text))

\* _extract_from_markdown
ExtractFromMarkdown(text) ==
    FirstValidSearch(text, <<"link", "ref">>)

TryContentExtractionDirectFirst(text) ==
    IF ExtractDirectUrl(text) # NoUrl THEN ExtractDirectUrl(text)
    ELSE IF ExtractFromHtmlTag(text) # NoUrl THEN ExtractFromHtmlTag(text)
    ELSE ExtractFromMarkdown(text)

\* _try_content_extraction over the joined text: the HTML tag, then the
\* direct URL, then the Markdown link
TryContentExtraction(text) ==
    IF ExtractFromHtmlTag(text) # NoUrl THEN ExtractFromHtmlTag(text)
    ELSE IF ExtractDirectUrl(text) # NoUrl THEN ExtractDirectUrl(text)
    ELSE ExtractFromMarkdown(text)

\* _try_structured_extraction of a frame or response object: its video_url
\* field if that starts with http:// or https://, else the url of an
\* attachments / media / files entry if that ends with ".mp4"
TryStructuredExtraction(chunk) ==
    IF chunk.video_url # NoUrl /\ UrlShape(chunk.video_url).http
    THEN chunk.video_url
    ELSE IF chunk.attachment # NoUrl /\ UrlShape(chunk.attachment).ends_mp4
    THEN chunk.attachment
    ELSE NoUrl

\* the decoded frames an upstream can send: a delta or message text (or
\* neither), and a video_url field (or none)
Chunks ==
    [content : Fragments \cup {"absent"}, video_url : {NoUrl, "urlS"},
     attachment : {NoUrl}]

\* the lines of a response body: a line without the "data:" marker, a marked
\* line whose payload is not JSON, the "[DONE]" line, or a marked JSON frame
NoChunk == [content |-> "absent", video_url |-> NoUrl, attachment |-> NoUrl]

SkippedKinds == {"no_marker", "bad_json"}

Lines ==
    [kind : SkippedKinds \cup {"done"}, chunk : {NoChunk}]
        \cup [kind : {"frame"}, chunk : Chunks]

\* the bodies an upstream can send: up to MaxLines lines
Streams == UNION {[1..n -> Lines] : n \in 0..MaxLines}

\* the response objects given to _extract_video_url_from_response: how far
\* the choices[0].message.content path exists, the content text, a top-level
\* video_url field and one attachments entry of the message (NoUrl: absent)
ChoicesShapes == {"no_choices", "no_message", "no_content", "content_not_str", "ok"}

Contents == {<<>>, <<"txt">>, <<"urlA">>, <<"txt", "urlB">>}

Responses ==
    [choices : ChoicesShapes, content : Contents,
     video_url : FieldUrls \cup {NoUrl}, attachment : FieldUrls \cup {NoUrl}]

\* the attachments list sits in choices[0].message
StructuredView(r) ==
    [content |-> "absent", video_url |-> r.video_url,
     attachment |-> IF r.choices \in {"no_choices", "no_message"}
                    THEN NoUrl ELSE r.attachment]

\* _extract_video_url_from_response: the shape checks, then the structured
\* extraction, then the text extraction on the content
ExtractVideoUrlFromResponse(r) ==
    IF r.choices # "ok" THEN [url |-> NoUrl, err |-> r.choices]
    ELSE IF TryStructuredExtraction(StructuredView(r)) # NoUrl
    THEN [url |-> TryStructuredExtraction(StructuredView(r)), err |-> "none"]
    ELSE IF TryContentExtraction(r.content) # NoUrl
    THEN [url |-> TryContentExtraction(r.content), err |-> "none"]
    ELSE [url |-> NoUrl, err |-> "not_extracted"]

\* no local file
NoPath == "no_path"

CoreIdle ==
    /\ enabled = TRUE
    /\ save_video_enabled = FALSE
    /\ cpc = "idle"
    /\ api_result = [url |-> NoUrl, err |-> NoError]
    /\ download_tried = FALSE
    /\ core_result = [url |-> NoUrl, path |-> NoPath, err |-> NoError]

ExtIdle ==
    /\ response = [choices |-> "ok", content |-> <<>>, video_url |-> NoUrl,
                   attachment |-> NoUrl]
    /\ extracted = [url |-> NoUrl, err |-> "none"]
    /\ epc = "idle"

ApiIdle ==
    /\ api_key = TRUE
    /\ max_retry_attempts = 0
    /\ timeout_seconds = DefaultTimeout
    /\ apc = "idle"
    /\ attempt = 0
    /\ status = 0
    /\ accumulated = <<>>
    /\ stream = <<>>
    /\ nlines = 0
    /\ result = [url |-> NoUrl, err |-> NoError]
    /\ trace = <<>>
    /\ failures = <<>>
    /\ lost = FALSE

configVars == <<group_control_mode, rate_limit_enabled, rate_limit_max_calls,
                rate_limit_window_seconds>>

limiterVars == <<rate_limit_bucket, rate_limit_locks, checkLog>>

InitCmd ==
    /\ group_control_mode \in {"off", "whitelist", "blacklist"}
    /\ rate_limit_enabled \in BOOLEAN
    /\ rate_limit_max_calls \in 1..MaxCallsBound
    /\ rate_limit_window_seconds = WindowSeconds
    /\ now = 0
    /\ rate_limit_bucket = EmptyDict
    /\ rate_limit_locks = EmptyDict
    /\ processing_tasks = EmptyDict
    /\ pc = [h \in Handlers |-> "cmd_idle"]
    /\ huser = [h \in Handlers |-> "u1"]
    /\ hgroup = [h \in Handlers |-> NoGroup]
    /\ hres = [h \in Handlers |-> "none"]
    /\ tres = [h \in Handlers |-> "none"]
    /\ sent = [h \in Handlers |-> {}]
    /\ cleanup_called = {}
    /\ released = [h \in Handlers |-> "none"]
    /\ upstream = {}
    /\ checkLog = <<>>
    /\ ApiIdle
    /\ ExtIdle
    /\ CoreIdle

\* time passes
Tick ==
    /\ now < MaxTime
    /\ now' = now + 1
    /\ UNCHANGED <<apiVars, extVars, coreVars, configVars, limiterVars, processing_tasks, pc, huser, hgroup,
                   hres, tres, sent, cleanup_called, released, upstream>>

CmdStartBusyFirst(h, u, g) ==
    /\ pc[h] = "cmd_idle"
    /\ \A k \in Handlers : k < h => pc[k] # "cmd_idle"
    /\ IF IsBusy(u)
       THEN /\ pc' = [pc EXCEPT ![h] = "cmd_done"]
            /\ hres' = [hres EXCEPT ![h] = "busy"]
            /\ UNCHANGED limiterVars
       ELSE LET r == CheckGroupAccess(h, g) IN
            /\ rate_limit_bucket' = r.bucket
            /\ rate_limit_locks' = r.locks
            /\ checkLog' = IF r.checked
                           THEN Append(checkLog, [g |-> g, t |-> now, ok |-> r.err = "ok",
                                                  lock |-> r.lock])
                           ELSE checkLog
            /\ IF r.err # "ok"
               THEN /\ pc' = [pc EXCEPT ![h] = "cmd_done"]
                    /\ hres' = [hres EXCEPT ![h] = r.err]
               ELSE /\ pc' = [pc EXCEPT ![h] = "cmd_extract"]
                    /\ hres' = hres
    /\ huser' = [huser EXCEPT ![h] = u]
    /\ hgroup' = [hgroup EXCEPT ![h] = g]
    /\ UNCHANGED <<apiVars, extVars, coreVars, configVars, now, processing_tasks, tres, sent, cleanup_called,
                   released, upstream>>

\* cmd_generate_video from its start to its first suspension: the access
\* check, then the busy check, then the await of the image extraction.
CmdStart(h, u, g) ==
    /\ pc[h] = "cmd_idle"
    /\ \A k \in Handlers : k < h => pc[k] # "cmd_idle"
    /\ LET r == CheckGroupAccess(h, g) IN
        /\ rate_limit_bucket' = r.bucket
        /\ rate_limit_locks' = r.locks
        /\ checkLog' = IF r.checked
                       THEN Append(checkLog, [g |-> g, t |-> now, ok |-> r.err = "ok",
                                              lock |-> r.lock])
                       ELSE checkLog
        /\ IF r.err # "ok"
           THEN /\ pc' = [pc EXCEPT ![h] = "cmd_done"]
                /\ hres' = [hres EXCEPT ![h] = r.err]
           ELSE IF IsBusy(u)
           THEN /\ pc' = [pc EXCEPT ![h] = "cmd_done"]
                /\ hres' = [hres EXCEPT ![h] = "busy"]
           ELSE /\ pc' = [pc EXCEPT ![h] = "cmd_extract"]
                /\ hres' = hres
    /\ huser' = [huser EXCEPT ![h] = u]
    /\ hgroup' = [hgroup EXCEPT ![h] = g]
    /\ UNCHANGED <<apiVars, extVars, coreVars, configVars, now, processing_tasks, tres, sent, cleanup_called,
                   released, upstream>>

\* the image extraction returns to cmd_generate_video: without an image the
\* command ends; with one the task id is recorded and the handler yields its
\* acknowledgement.  The extraction may also raise (outside the handler's try).
ExtractDone(h, img) ==
    /\ pc[h] = "cmd_extract"
    /\ IF img = "image"
       THEN /\ processing_tasks' = DictPut(processing_tasks, huser[h], h)
            /\ pc' = [pc EXCEPT ![h] = "cmd_ack"]
            /\ hres' = [hres EXCEPT ![h] = "accepted"]
       ELSE /\ processing_tasks' = processing_tasks
            /\ pc' = [pc EXCEPT ![h] = "cmd_done"]
            /\ hres' = [hres EXCEPT ![h] = IF img = "none" THEN "no_image" ELSE "crashed"]
    /\ UNCHANGED <<apiVars, extVars, coreVars, configVars, now, limiterVars, huser, hgroup, tres, sent,
                   cleanup_called, released, upstream>>

\* the handler resumes after its yield and creates the background task
Spawn(h) ==
    /\ pc[h] = "cmd_ack"
    /\ pc' = [pc EXCEPT ![h] = "task_core"]
    /\ UNCHANGED <<apiVars, extVars, coreVars, configVars, now, limiterVars, processing_tasks, huser, hgroup,
                   hres, tres, sent, cleanup_called, released, upstream>>

\* what _generate_video_core can give: an error before any upstream call
\* (disabled, no image), an exception of the image extraction, an error of
\* the upstream call, a URL, or a URL with a downloaded file
CoreOutcomes == {"err_noapi", "raises", "err_api", "url", "url_path"}

\* the task's await of _generate_video_core returns or raises
TaskCore(h, o) ==
    /\ pc[h] = "task_core"
    /\ tres' = [tres EXCEPT ![h] = o]
    /\ upstream' = IF o \in {"err_api", "url", "url_path"}
                   THEN upstream \cup {h} ELSE upstream
    /\ TaskGoto(h, CASE o \in {"err_noapi", "err_api"} -> "task_send_err"
                     [] o = "raises" -> "task_send_exc"
                     [] OTHER -> "task_deliver")
    /\ UNCHANGED <<apiVars, extVars, coreVars, configVars, now, limiterVars, huser, hgroup, hres, cleanup_called>>

\* the send of the error message returns or raises
SendErr(h, ok) ==
    /\ pc[h] = "task_send_err"
    /\ TaskGoto(h, IF ok THEN "task_done" ELSE "task_send_exc")
    /\ UNCHANGED <<apiVars, extVars, coreVars, configVars, now, limiterVars, huser, hgroup, hres, tres,
                   cleanup_called, upstream>>

\* the cleanup step after a delivery: called only with a local path
CleanupAfter(h) ==
    IF tres[h] = "url_path" THEN cleanup_called \cup {h} ELSE cleanup_called

\* wait_for(event.send(video), 90) returns, times out, or raises
Deliver(h, o) ==
    /\ pc[h] = "task_deliver"
    /\ TaskGoto(h, CASE o = "ok" -> "task_done"
                     [] o = "timeout" -> "task_warn_timeout"
                     [] o = "ws_timeout" -> "task_warn_ws"
                     [] OTHER -> "task_send_fail")
    /\ cleanup_called' = IF o = "ok" THEN CleanupAfter(h) ELSE cleanup_called
    /\ UNCHANGED <<apiVars, extVars, coreVars, configVars, now, limiterVars, huser, hgroup, hres, tres, upstream>>

\* the warning sent after a delivery timeout returns, or raises into the
\* enclosing except of the delivery block
WarnTimeout(h, o) ==
    /\ pc[h] = "task_warn_timeout"
    /\ TaskGoto(h, CASE o = "ok" -> "task_done"
                     [] o = "ws_timeout" -> "task_warn_ws"
                     [] OTHER -> "task_send_fail")
    /\ cleanup_called' = IF o = "ok" THEN CleanupAfter(h) ELSE cleanup_called
    /\ UNCHANGED <<apiVars, extVars, coreVars, configVars, now, limiterVars, huser, hgroup, hres, tres, upstream>>

\* a message sent from the except of the delivery block returns, or raises
\* into the outer except
SendInExcept(h, ok) ==
    /\ pc[h] \in {"task_warn_ws", "task_send_fail"}
    /\ TaskGoto(h, IF ok THEN "task_done" ELSE "task_send_exc")
    /\ UNCHANGED <<apiVars, extVars, coreVars, configVars, now, limiterVars, huser, hgroup, hres, tres,
                   cleanup_called, upstream>>

\* the message sent from the outer except returns or raises; finally runs
SendExc(h, ok) ==
    /\ pc[h] = "task_send_exc"
    /\ TaskGoto(h, "task_done")
    /\ UNCHANGED <<apiVars, extVars, coreVars, configVars, now, limiterVars, huser, hgroup, hres, tres,
                   cleanup_called, upstream>>

DeliverOutcomes == {"ok", "timeout", "ws_timeout", "error"}

RaceHandlers == 1..NumRaceHandlers

AnyGroup == Groups \cup {NoGroup}

\* the command layer: tasks whose sends all succeed
NextCmd ==
    \/ \E h \in RaceHandlers, u \in Users, g \in AnyGroup : CmdStart(h, u, g)
    \/ \E h \in RaceHandlers, img \in {"image", "none", "raises"} : ExtractDone(h, img)
    \/ \E h \in RaceHandlers : Spawn(h)
    \/ \E h \in RaceHandlers, o \in {"err_api", "url"} : TaskCore(h, o)
    \/ \E h \in RaceHandlers : SendErr(h, TRUE)
    \/ \E h \in RaceHandlers : Deliver(h, "ok")

Spec == InitCmd /\ [][NextCmd]_vars

\* the rate limiter over time
NextRate ==
    \/ Tick
    \/ \E h \in Handlers, g \in AnyGroup : CmdStart(h, "u1", g)

SpecRate == InitCmd /\ [][NextRate]_vars

\* commands of one user over time up to the start of their tasks: the access
\* check, the busy check and the image check of cmd_generate_video while the
\* clock advances
NextQuota ==
    \/ Tick
    \/ \E h \in Handlers, g \in {"g1", NoGroup} : CmdStart(h, "u1", g)
    \/ \E h \in Handlers, img \in {"image", "none"} : ExtractDone(h, img)
    \/ \E h \in Handlers : Spawn(h)

SpecQuota == InitCmd /\ [][NextQuota]_vars

\* the background task in full, for commands of one user in a direct chat
InitTask ==
    /\ InitCmd
    /\ group_control_mode = "off"
    /\ rate_limit_enabled
    /\ rate_limit_max_calls = 1

TaskStep(h) ==
    \/ \E o \in CoreOutcomes : TaskCore(h, o)
    \/ \E ok \in BOOLEAN : SendErr(h, ok)
    \/ \E o \in DeliverOutcomes : Deliver(h, o)
    \/ \E o \in DeliverOutcomes \ {"timeout"} : WarnTimeout(h, o)
    \/ \E ok \in BOOLEAN : SendInExcept(h, ok)
    \/ \E ok \in BOOLEAN : SendExc(h, ok)

NextTask ==
    \/ \E h \in RaceHandlers : CmdStart(h, "u1", NoGroup)
    \/ \E h \in RaceHandlers : ExtractDone(h, "image")
    \/ \E h \in RaceHandlers : Spawn(h)
    \/ \E h \in RaceHandlers : TaskStep(h)

SpecTask == InitTask /\ [][NextTask]_vars

FairSpecTask ==
    /\ SpecTask
    /\ \A h \in RaceHandlers :
        /\ WF_vars(ExtractDone(h, "image"))
        /\ WF_vars(Spawn(h))
        /\ WF_vars(TaskStep(h))

\* ------------------------------------------------ _call_grok_api, stepwise
\* the command layer at rest
CmdIdle ==
    /\ group_control_mode = "off"
    /\ rate_limit_enabled = TRUE
    /\ rate_limit_max_calls = 1
    /\ rate_limit_window_seconds = WindowSeconds
    /\ now = 0
    /\ rate_limit_bucket = EmptyDict
    /\ rate_limit_locks = EmptyDict
    /\ processing_tasks = EmptyDict
    /\ pc = [h \in Handlers |-> "cmd_idle"]
    /\ huser = [h \in Handlers |-> "u1"]
    /\ hgroup = [h \in Handlers |-> NoGroup]
    /\ hres = [h \in Handlers |-> "none"]
    /\ tres = [h \in Handlers |-> "none"]
    /\ sent = [h \in Handlers |-> {}]
    /\ cleanup_called = {}
    /\ released = [h \in Handlers |-> "none"]
    /\ upstream = {}
    /\ checkLog = <<>>

InitApi ==
    /\ CmdIdle
    /\ ExtIdle
    /\ CoreIdle
    /\ api_key \in BOOLEAN
    /\ max_retry_attempts \in 0..MaxAttemptsBound
    /\ timeout_seconds \in TimeoutChoices
    /\ apc = "call"
    /\ attempt = 0
    /\ status = 0
    /\ accumulated = <<>>
    /\ stream = <<>>
    /\ nlines = 0
    /\ result = [url |-> NoUrl, err |-> NoError]
    /\ trace = <<>>
    /\ failures = <<>>
    /\ lost = FALSE

\* the call returns (url, error)
ApiReturn(url, err) ==
    /\ apc' = "returned"
    /\ result' = [url |-> url, err |-> err]

\* the head of the for loop with loop value a: the next attempt sends its
\* request, or the loop is exhausted and the call falls through
LoopHead(a) ==
    IF a < max_retry_attempts
    THEN /\ apc' = "request"
         /\ attempt' = a
         /\ status' = 0
         /\ stream' = <<>>
         /\ nlines' = 0
         /\ trace' = Append(trace, "attempt")
         /\ UNCHANGED result
    ELSE /\ ApiReturn(NoUrl, AllFailedError)
         /\ UNCHANGED <<attempt, status, stream, nlines, trace>>

ApiBeginKeyUnchecked ==
    /\ apc = "call"
    /\ LoopHead(0)
    /\ UNCHANGED <<api_key, max_retry_attempts, timeout_seconds,
                   accumulated, failures, lost, cmdVars, extVars, coreVars>>

\* _call_grok_api from its start to the first request
ApiBegin ==
    /\ apc = "call"
    /\ IF ~api_key
       THEN /\ ApiReturn(NoUrl, NoKeyError)
            /\ UNCHANGED <<attempt, status, stream, nlines, trace>>
       ELSE LoopHead(0)
    /\ UNCHANGED <<api_key, max_retry_attempts, timeout_seconds,
                   accumulated, failures, lost, cmdVars, extVars, coreVars>>

\* the except clauses: the last attempt returns its error, any other sleeps
AttemptFailed(x) ==
    /\ failures' = Append(failures, x)
    /\ lost' = (lost \/ (apc = "stream" /\ accumulated # <<>>))
    /\ IF IsLastAttempt(attempt)
       THEN /\ ApiReturn(NoUrl, ErrorOf(x))
            /\ trace' = Append(trace, "fail")
       ELSE /\ apc' = "sleep"
            /\ trace' = Append(Append(trace, "fail"), "delay")
            /\ UNCHANGED result

\* the request of the attempt raises
RequestRaises(x) ==
    /\ apc = "request"
    /\ AttemptFailed(x)
    /\ UNCHANGED <<api_key, max_retry_attempts, timeout_seconds, stream, attempt, status,
                   accumulated, nlines, cmdVars, extVars, coreVars>>

ResponseRetryStatus(st) ==
    /\ apc = "request"
    /\ status' = st
    /\ IF st # OkStatus
       THEN /\ AttemptFailed("e1")
            /\ UNCHANGED <<accumulated, stream, nlines>>
       ELSE /\ apc' = "stream"
            /\ accumulated' = <<>>
            /\ stream' \in Streams
            /\ nlines' = 0
            /\ UNCHANGED <<result, trace, failures, lost>>
    /\ UNCHANGED <<api_key, max_retry_attempts, timeout_seconds, attempt, cmdVars, extVars, coreVars>>

ResponseKeepsAccumulated(st) ==
    /\ apc = "request"
    /\ status' = st
    /\ IF st = DeniedStatus
       THEN /\ ApiReturn(NoUrl, DeniedError)
            /\ UNCHANGED <<accumulated, stream, nlines>>
       ELSE IF st # OkStatus
       THEN /\ apc' = "aread"
            /\ UNCHANGED <<result, accumulated, stream, nlines>>
       ELSE /\ apc' = "stream"
            /\ accumulated' = accumulated
            /\ stream' \in Streams
            /\ nlines' = 0
            /\ UNCHANGED result
    /\ UNCHANGED <<api_key, max_retry_attempts, timeout_seconds, attempt, trace,
                   failures, lost, cmdVars, extVars, coreVars>>

\* the response arrives with its status code
Response(st) ==
    /\ apc = "request"
    /\ status' = st
    /\ IF st = DeniedStatus
       THEN /\ ApiReturn(NoUrl, DeniedError)
            /\ UNCHANGED <<accumulated, stream, nlines>>
       ELSE IF st # OkStatus
       THEN /\ apc' = "aread"
            /\ UNCHANGED <<result, accumulated, stream, nlines>>
       ELSE /\ apc' = "stream"
            /\ accumulated' = <<>>
            /\ stream' \in Streams
            /\ nlines' = 0
            /\ UNCHANGED result
    /\ UNCHANGED <<api_key, max_retry_attempts, timeout_seconds, attempt, trace,
                   failures, lost, cmdVars, extVars, coreVars>>

\* the error body has been read: the status error is returned
AreadDone(bodylen) ==
    /\ apc = "aread"
    /\ ApiReturn(NoUrl, StatusError(status, bodylen))
    /\ UNCHANGED <<api_key, max_retry_attempts, timeout_seconds, stream, attempt, status,
                   accumulated, nlines, trace, failures, lost, cmdVars, extVars, coreVars>>

\* reading the error body raises
AreadRaises(x) ==
    /\ apc = "aread"
    /\ AttemptFailed(x)
    /\ UNCHANGED <<api_key, max_retry_attempts, timeout_seconds, stream, attempt, status,
                   accumulated, nlines, cmdVars, extVars, coreVars>>

LineSkippedEndsAttempt ==
    /\ apc = "stream"
    /\ nlines < Len(stream)
    /\ stream[nlines + 1].kind \in SkippedKinds
    /\ nlines' = nlines + 1
    /\ AttemptFailed("e1")
    /\ UNCHANGED <<api_key, max_retry_attempts, timeout_seconds, stream, attempt,
                   status, accumulated, cmdVars, extVars, coreVars>>

\* the next line lacks the "data:" marker, or its payload is not JSON
LineSkipped ==
    /\ apc = "stream"
    /\ nlines < Len(stream)
    /\ stream[nlines + 1].kind \in SkippedKinds
    /\ nlines' = nlines + 1
    /\ UNCHANGED <<api_key, max_retry_attempts, timeout_seconds, stream, apc, attempt,
                   status, accumulated, result, trace, failures, lost, cmdVars, extVars, coreVars>>

LineFrameReadsOn(chunk) ==
    /\ apc = "stream"
    /\ nlines < Len(stream)
    /\ stream[nlines + 1] = [kind |-> "frame", chunk |-> chunk]
    /\ nlines' = nlines + 1
    /\ accumulated' = IF chunk.content = "absent" THEN accumulated
                      ELSE Append(accumulated, chunk.content)
    /\ UNCHANGED <<api_key, max_retry_attempts, timeout_seconds, stream, attempt, status,
                   apc, result, trace, failures, lost, cmdVars, extVars, coreVars>>

\* the next line is a decoded frame: its text is appended, then the text
\* extraction runs on the joined accumulator and, if that finds nothing, the
\* structured one on the frame
LineFrame(chunk) ==
    /\ apc = "stream"
    /\ nlines < Len(stream)
    /\ stream[nlines + 1] = [kind |-> "frame", chunk |-> chunk]
    /\ nlines' = nlines + 1
    /\ LET acc == IF chunk.content = "absent" THEN accumulated
                  ELSE Append(accumulated, chunk.content)
           url1 == TryContentExtraction(acc)
           url == IF url1 # NoUrl THEN url1 ELSE TryStructuredExtraction(chunk)
       IN /\ accumulated' = acc
          /\ IF url # NoUrl
             THEN ApiReturn(url, NoError)
             ELSE UNCHANGED <<apc, result>>
    /\ UNCHANGED <<api_key, max_retry_attempts, timeout_seconds, stream, attempt, status,
                   trace, failures, lost, cmdVars, extVars, coreVars>>

\* the stream is exhausted, or the next line is "[DONE]"
AtStreamEnd ==
    IF nlines < Len(stream) THEN stream[nlines + 1].kind = "done" ELSE TRUE

StreamEndRetry ==
    /\ apc = "stream"
    /\ AtStreamEnd
    /\ nlines' = IF nlines < Len(stream) THEN nlines + 1 ELSE nlines
    /\ failures' = Append(failures, "e1")
    /\ lost' = lost
    /\ IF TryContentExtraction(accumulated) # NoUrl
       THEN /\ ApiReturn(TryContentExtraction(accumulated), NoError)
            /\ trace' = Append(trace, "end")
       ELSE IF IsLastAttempt(attempt)
       THEN /\ ApiReturn(NoUrl, NoUrlError)
            /\ trace' = Append(Append(trace, "end"), "fail")
       ELSE /\ apc' = "sleep"
            /\ trace' = Append(Append(Append(trace, "end"), "fail"), "delay")
            /\ UNCHANGED result
    /\ UNCHANGED <<api_key, max_retry_attempts, timeout_seconds, stream, attempt, status,
                   accumulated, cmdVars, extVars, coreVars>>

\* the stream ends, or the "[DONE]" line is read: the final extraction pass
StreamEnd ==
    /\ apc = "stream"
    /\ AtStreamEnd
    /\ nlines' = IF nlines < Len(stream) THEN nlines + 1 ELSE nlines
    /\ trace' = Append(trace, "end")
    /\ LET url == TryContentExtraction(accumulated)
       IN IF url # NoUrl
          THEN ApiReturn(url, NoError)
          ELSE ApiReturn(NoUrl, NoUrlError)
    /\ UNCHANGED <<api_key, max_retry_attempts, timeout_seconds, stream, attempt, status,
                   accumulated, failures, lost, cmdVars, extVars, coreVars>>

\* reading the stream raises
StreamRaises(x) ==
    /\ apc = "stream"
    /\ AttemptFailed(x)
    /\ UNCHANGED <<api_key, max_retry_attempts, timeout_seconds, stream, attempt, status,
                   accumulated, nlines, cmdVars, extVars, coreVars>>

\* asyncio.sleep(1) is over: the loop goes on with the next attempt
Wake ==
    /\ apc = "sleep"
    /\ LoopHead(attempt + 1)
    /\ UNCHANGED <<api_key, max_retry_attempts, timeout_seconds,
                   accumulated, failures, lost, cmdVars, extVars, coreVars>>

NextApi ==
    \/ ApiBegin
    \/ \E x \in Raised : RequestRaises(x)
    \/ \E st \in Statuses : Response(st)
    \/ \E n \in BodyLens : AreadDone(n)
    \/ \E x \in Raised : AreadRaises(x)
    \/ LineSkipped
    \/ \E c \in Chunks : LineFrame(c)
    \/ StreamEnd
    \/ \E x \in Raised : StreamRaises(x)
    \/ Wake

SpecApi == InitApi /\ [][NextApi]_vars

\* ------------------------------------------- the extractors, one application
InitExtract ==
    /\ CmdIdle
    /\ ApiIdle
    /\ CoreIdle
    /\ response \in Responses
    /\ extracted = [url |-> NoUrl, err |-> "none"]
    /\ epc = "input"

\* _extract_video_url_from_response(response) returns
ExtractFromResponse ==
    /\ epc = "input"
    /\ extracted' = ExtractVideoUrlFromResponse(response)
    /\ epc' = "response_done"
    /\ UNCHANGED <<response, cmdVars, apiVars, coreVars>>

\* _try_structured_extraction(response) returns
ExtractStructured ==
    /\ epc = "input"
    /\ extracted' = [url |-> TryStructuredExtraction(StructuredView(response)),
                     err |-> "none"]
    /\ epc' = "structured_done"
    /\ UNCHANGED <<response, cmdVars, apiVars, coreVars>>

NextExtract ==
    \/ ExtractFromResponse
    \/ ExtractStructured

SpecExtract == InitExtract /\ [][NextExtract]_vars

\* ---- _try_content_extraction applied to a text
\* the texts given to the text extraction: up to MaxTokens pieces
Texts == UNION {[1..n -> Tokens] : n \in 0..MaxTokens}

InitText ==
    /\ CmdIdle
    /\ ApiIdle
    /\ CoreIdle
    /\ \E text \in Texts :
          response = [choices |-> "ok", content |-> text, video_url |-> NoUrl,
                      attachment |-> NoUrl]
    /\ extracted = [url |-> NoUrl, err |-> "none"]
    /\ epc = "input"

\* _try_content_extraction(content) returns
ExtractContent ==
    /\ epc = "input"
    /\ extracted' = [url |-> TryContentExtraction(response.content), err |-> "none"]
    /\ epc' = "content_done"
    /\ UNCHANGED <<response, cmdVars, apiVars, coreVars>>

SpecText == InitText /\ [][ExtractContent]_vars

\* -------------------------------------------- _generate_video_core, stepwise
\* "视频生成功能已禁用"
DisabledError == Msg("disabled", 0, "", 0, 0)
\* "请发送图片或引用图片进行视频生成。"
NoImageError == Msg("no_image", 0, "", 0, 0)
\* "API未返回视频URL"
NoUrlReturnedError == Msg("no_url_returned", 0, "", 0, 0)

InitCore ==
    /\ CmdIdle
    /\ ExtIdle
    /\ api_key \in BOOLEAN
    /\ max_retry_attempts \in 0..MaxAttemptsBound
    /\ timeout_seconds = DefaultTimeout
    /\ apc = "idle"
    /\ attempt = 0
    /\ status = 0
    /\ accumulated = <<>>
    /\ stream = <<>>
    /\ nlines = 0
    /\ result = [url |-> NoUrl, err |-> NoError]
    /\ trace = <<>>
    /\ failures = <<>>
    /\ lost = FALSE
    /\ enabled \in BOOLEAN
    /\ save_video_enabled \in BOOLEAN
    /\ cpc = "start"
    /\ api_result = [url |-> NoUrl, err |-> NoError]
    /\ download_tried = FALSE
    /\ core_result = [url |-> NoUrl, path |-> NoPath, err |-> NoError]

\* the core returns (url, path, error)
CoreReturn(url, path, err) ==
    /\ cpc' = "returned"
    /\ core_result' = [url |-> url, path |-> path, err |-> err]

\* from the start of the core to its await of the image extraction
CoreBegin ==
    /\ cpc = "start"
    /\ IF ~enabled
       THEN CoreReturn(NoUrl, NoPath, DisabledError)
       ELSE cpc' = "images" /\ UNCHANGED core_result
    /\ UNCHANGED <<enabled, save_video_enabled, api_result, download_tried,
                   cmdVars, apiVars, extVars>>

\* the image extraction returns or raises; with an image the core calls
\* _call_grok_api
CoreImages(img) ==
    /\ cpc = "images"
    /\ CASE img = "image" -> cpc' = "api" /\ apc' = "call" /\ UNCHANGED core_result
         [] img = "none" -> CoreReturn(NoUrl, NoPath, NoImageError) /\ UNCHANGED apc
         [] OTHER -> cpc' = "raised" /\ UNCHANGED <<core_result, apc>>
    /\ UNCHANGED <<enabled, save_video_enabled, api_result, download_tried,
                   api_key, max_retry_attempts, timeout_seconds, attempt, status,
                   accumulated, stream, nlines, result, trace, failures, lost,
                   cmdVars, extVars>>

ShouldDownloadAlways ==
    TRUE

\* "if self.save_video_enabled"
ShouldDownload ==
    save_video_enabled

\* _call_grok_api returns r: an error or a missing URL ends the core; a URL is
\* returned at once, or after the download when saving is configured
CoreApi(r) ==
    /\ cpc = "api"
    /\ apc = "returned"
    /\ api_result' = r
    /\ IF r.err # NoError THEN CoreReturn(NoUrl, NoPath, r.err)
       ELSE IF r.url = NoUrl THEN CoreReturn(NoUrl, NoPath, NoUrlReturnedError)
       ELSE IF ShouldDownload THEN cpc' = "download" /\ UNCHANGED core_result
       ELSE CoreReturn(r.url, NoPath, NoError)
    /\ UNCHANGED <<enabled, save_video_enabled, download_tried,
                   cmdVars, apiVars, extVars>>

\* _download_video returns the saved path, or None after a failed request, a
\* non-2xx status or a failed write (it catches every exception)
CoreDownload(o) ==
    /\ cpc = "download"
    /\ download_tried' = TRUE
    /\ CoreReturn(api_result.url, IF o = "saved" THEN "file" ELSE NoPath, NoError)
    /\ UNCHANGED <<enabled, save_video_enabled, api_result,
                   cmdVars, apiVars, extVars>>

DownloadOutcomes == {"saved", "request_failed", "bad_status", "write_failed"}

NextCore ==
    \/ CoreBegin
    \/ \E img \in {"image", "none", "raises"} : CoreImages(img)
    \/ NextApi
    \/ CoreApi(result)
    \/ \E o \in DownloadOutcomes : CoreDownload(o)

SpecCore == InitCore /\ [][NextCore]_vars

\* ------------------------------------------------------------------ claims

\* a generation recorded for a user that has not finished: the handler holds
\* its recorded id before the spawn, or its task runs
InFlightPcs == {"cmd_ack"} \cup TaskRunning

\* handler h runs its access check and busy check in this step
CheckStep(h) == pc[h] = "cmd_idle" /\ pc'[h] # "cmd_idle"

\* task h ends (its finally block runs) in this step
FinishStep(h) == pc[h] \in TaskRunning /\ pc'[h] = "task_done"

\* C1: at most one in flight per user: there is never a state in which two
\* background generation tasks of the same user are both started and not yet
\* finished.
C1_AtMostOneInFlight ==
    \A h1, h2 \in Handlers :
        (h1 # h2 /\ pc[h1] \in TaskRunning /\ pc[h2] \in TaskRunning)
            => huser[h1] # huser[h2]

C3_ReleaseByIdentity ==
    [][\A h \in Handlers :
        FinishStep(h) =>
            IF huser[h] \in DOMAIN processing_tasks /\ processing_tasks[huser[h]] = h
            THEN /\ huser[h] \notin DOMAIN processing_tasks'
                 /\ \A u \in Users \ {huser[h]} :
                        /\ u \in DOMAIN processing_tasks' <=> u \in DOMAIN processing_tasks
                        /\ u \in DOMAIN processing_tasks =>
                               processing_tasks'[u] = processing_tasks[u]
            ELSE processing_tasks' = processing_tasks]_vars

\* C3 witness: a task has finished while the map held the id of a newer task
\* of its user, which is still recorded
C3_Witness ==
    \E h1, h2 \in Handlers :
        /\ h1 # h2 /\ huser[h1] = huser[h2]
        /\ released[h1] = "kept_other"
        /\ huser[h1] \in DOMAIN processing_tasks
        /\ processing_tasks[huser[h1]] = h2

RECURSIVE WindowAfter(_, _)
WindowAfter(n, g) ==
    IF n = 0 THEN [has |-> FALSE, window_start |-> 0, count |-> 0]
    ELSE LET e == checkLog[n]
             p == WindowAfter(n - 1, g)
         IN IF e.g # g THEN p
            ELSE IF ~p.has \/ e.t - p.window_start >= rate_limit_window_seconds
            THEN [has |-> TRUE, window_start |-> e.t, count |-> 1]
            ELSE IF p.count < rate_limit_max_calls
            THEN [p EXCEPT !.count = @ + 1]
            ELSE p

\* what the policy answers to the n-th logged check
PolicyAllows(n) ==
    LET e == checkLog[n]
        p == WindowAfter(n - 1, e.g)
    IN \/ ~p.has
       \/ e.t - p.window_start >= rate_limit_window_seconds
       \/ p.count < rate_limit_max_calls

\* C5: fixed-window limit: inside one window the first maxCalls checks of a
\* group are allowed and every later one is rejected; the first check made when
\* now - windowStart >= windowSeconds is allowed and leaves windowStart = now,
\* count = 1.  Every logged decision is the policy's, and the stored window is
\* the policy's window.
C5_FixedWindow ==
    /\ \A n \in 1..Len(checkLog) : checkLog[n].ok = PolicyAllows(n)
    /\ \A g \in Groups :
        LET w == WindowAfter(Len(checkLog), g) IN
        /\ w.has <=> g \in DOMAIN rate_limit_bucket
        /\ w.has => /\ rate_limit_bucket[g].window_start = w.window_start
                    /\ rate_limit_bucket[g].count = w.count

\* C5 witness: a group used up its window, was rejected in it, and the first
\* check after the window expired was allowed and restarted it with count 1
C5_Witness ==
    \E g \in Groups : \E i, j, k \in 1..Len(checkLog) :
        /\ i < j /\ j < k
        /\ checkLog[i].g = g /\ checkLog[j].g = g /\ checkLog[k].g = g
        /\ checkLog[i].ok /\ ~checkLog[j].ok /\ checkLog[k].ok
        /\ checkLog[j].t - checkLog[i].t < rate_limit_window_seconds
        /\ k = Len(checkLog)
        /\ g \in DOMAIN rate_limit_bucket
        /\ rate_limit_bucket[g] = [window_start |-> checkLog[k].t, count |-> 1]
        /\ checkLog[k].t - checkLog[i].t >= rate_limit_window_seconds

\* the checks of group g that were allowed in its current window
AllowedInWindow(g) ==
    {n \in 1..Len(checkLog) :
        /\ checkLog[n].g = g /\ checkLog[n].ok
        /\ checkLog[n].t >= rate_limit_bucket[g].window_start}

\* C6: for every group the stored count is at most maxCalls and equals the
\* number of checks allowed for the group in the current window (no lost
\* update, no over-admission); a group without a window was never admitted.
C6_CountBounded ==
    \A g \in Groups :
        IF g \in DOMAIN rate_limit_bucket
        THEN /\ rate_limit_bucket[g].count <= rate_limit_max_calls
             /\ rate_limit_bucket[g].count = Cardinality(AllowedInWindow(g))
        ELSE \A n \in 1..Len(checkLog) : checkLog[n].g = g => ~checkLog[n].ok

\* C6 witness: a group's window is full after two admissions and a further
\* check of the group in that window was turned away
C6_Witness ==
    \E g \in Groups :
        /\ g \in DOMAIN rate_limit_bucket
        /\ rate_limit_max_calls >= 2
        /\ rate_limit_bucket[g].count = rate_limit_max_calls
        /\ \E n \in 1..Len(checkLog) :
            /\ checkLog[n].g = g /\ ~checkLog[n].ok
            /\ checkLog[n].t >= rate_limit_bucket[g].window_start

\* the group passes the whitelist / blacklist configuration
Permitted(g) ==
    /\ ~(group_control_mode = "whitelist" /\ g \notin group_list)
    /\ ~(group_control_mode = "blacklist" /\ g \in group_list)

\* C7: the window table and the lock table change only in the check of a
\* command from a permitted group while rate limiting is enabled; a command
\* from a group the whitelist or blacklist rejects is answered with that
\* rejection, ends there and never causes an upstream request; a command from a
\* direct chat is never rejected by the access check.
C7_LimiterFrame ==
    /\ [][(rate_limit_bucket' # rate_limit_bucket \/ rate_limit_locks' # rate_limit_locks)
            => \E h \in Handlers :
                /\ CheckStep(h)
                /\ hgroup'[h] \in Groups
                /\ Permitted(hgroup'[h])
                /\ rate_limit_enabled]_vars
    /\ [][\A h \in Handlers : CheckStep(h) =>
            /\ (hgroup'[h] \in Groups /\ ~Permitted(hgroup'[h]))
                  => /\ hres'[h] \in {"not_authorized", "restricted"}
                     /\ pc'[h] = "cmd_done"
            /\ hgroup'[h] = NoGroup => hres'[h] \notin AccessErrors]_vars
    /\ [](\A h \in Handlers :
            hres[h] \in {"not_authorized", "restricted"}
                => pc[h] = "cmd_done" /\ h \notin upstream)

\* C7 witness: with rate limiting enabled one command was rejected by the
\* whitelist or blacklist, a direct-chat command went on to its upstream
\* request, and both tables are still empty
C7_Witness ==
    \E h, k \in Handlers :
        /\ hres[h] \in {"not_authorized", "restricted"}
        /\ hgroup[k] = NoGroup /\ k \in upstream
        /\ rate_limit_enabled
        /\ rate_limit_bucket = EmptyDict /\ rate_limit_locks = EmptyDict

\* how often x occurs in the history
RECURSIVE Count(_, _)
Count(seq, x) ==
    IF seq = <<>> THEN 0
    ELSE (IF Head(seq) = x THEN 1 ELSE 0) + Count(Tail(seq), x)

NAttempts == Count(trace, "attempt")
NDelays == Count(trace, "delay")

\* C8: retry accounting: with maxAttempts >= 1 the retry loop makes at most
\* maxAttempts attempts and, when the call has returned, attempts - 1 delays; a
\* delay stands only between a failed attempt and the next attempt (never after
\* a success, never after the final failure); when all maxAttempts attempts
\* time out there are exactly maxAttempts attempts and maxAttempts - 1 delays.
C8_RetryAccounting ==
    (api_key /\ max_retry_attempts >= 1 /\ apc # "call") =>
        /\ NAttempts >= 1 /\ NAttempts <= max_retry_attempts
        /\ apc = "returned" => NDelays = NAttempts - 1
        /\ \A i \in 1..Len(trace) :
            trace[i] = "delay" =>
                /\ i > 1 /\ trace[i - 1] = "fail"
                /\ IF i < Len(trace) THEN trace[i + 1] = "attempt" ELSE apc = "sleep"
        /\ (apc = "returned" /\ result.url # NoUrl) => trace[Len(trace)] = "attempt"
        /\ (/\ apc = "returned"
            /\ Len(failures) = max_retry_attempts
            /\ \A i \in 1..Len(failures) : failures[i] = "timeout")
                => NAttempts = max_retry_attempts /\ NDelays = max_retry_attempts - 1

\* C8 witness: three configured attempts all timed out: three attempts, two
\* delays, and the call has returned
C8_Witness ==
    /\ apc = "returned"
    /\ max_retry_attempts = 3
    /\ failures = <<"timeout", "timeout", "timeout">>
    /\ NAttempts = 3 /\ NDelays = 2

\* the message the except clauses build for what an attempt raised
ExpectedError(x) ==
    IF x = "timeout"
    THEN [kind |-> "timeout", secs |-> timeout_seconds, detail |-> "",
          status |-> 0, snippet |-> 0]
    ELSE [kind |-> "exception", secs |-> 0, detail |-> x, status |-> 0, snippet |-> 0]

\* C9: when the final attempt fails, the call returns the message of that
\* attempt's failure (for a timeout, with the configured timeout value), with
\* no URL, and not the generic "all retries failed" message; with maxAttempts
\* >= 1 the fall-through result after the loop is never returned.
C9_FinalError ==
    /\ (apc = "returned" /\ max_retry_attempts >= 1
            /\ Len(failures) = max_retry_attempts) =>
        /\ result.err = ExpectedError(failures[max_retry_attempts])
        /\ result.url = NoUrl
        /\ result.err.kind # "all_retries_failed"
    /\ (api_key /\ max_retry_attempts >= 1) => result.err.kind # "all_retries_failed"

\* C9 witness: the first attempt raised an exception, the final one timed out
\* under a non-default timeout, and the timeout message was returned
C9_Witness ==
    /\ apc = "returned"
    /\ max_retry_attempts = 2
    /\ failures = <<"e1", "timeout">>
    /\ timeout_seconds # DefaultTimeout
    /\ result.err.kind = "timeout" /\ result.err.secs = timeout_seconds

\* C10 (as claimed): a non-200 status is retried: when every attempt made got
\* a non-200 status, the call has made the configured number of attempts when
\* the failure is returned.
C10_StatusRetried ==
    (/\ apc = "returned"
     /\ result.err.kind \in {"denied", "status"}
     /\ failures = <<>>)
        => NAttempts = max_retry_attempts

\* C10 (amended): a non-200 status is not retried.  The attempt that receives
\* it ends the call, with no delay and no further attempt whatever attempts
\* remain: on 403 at once with the authorization failure, on another non-200
\* status with the status error once the error body is read; only an exception
\* raised while reading that body is retried.
C10_StatusTerminal ==
    /\ [][(apc = "request" /\ status' \notin {0, OkStatus}) =>
            /\ trace' = trace /\ failures' = failures
            /\ IF status' = DeniedStatus
               THEN apc' = "returned" /\ result'.err.kind = "denied"
                                      /\ result'.url = NoUrl
               ELSE apc' = "aread"]_vars
    /\ [][(apc = "aread" /\ apc' # "aread" /\ failures' = failures) =>
            /\ trace' = trace
            /\ apc' = "returned"
            /\ result'.err.kind = "status" /\ result'.err.status = status
            /\ result'.url = NoUrl]_vars
    /\ []((apc = "returned" /\ result.err.kind \in {"denied", "status"}) =>
            /\ NAttempts = Len(failures) + 1
            /\ NDelays = Len(failures)
            /\ trace[Len(trace)] = "attempt")

\* C10 witness: the first of three configured attempts got a status other than
\* 200 and 403, and the call has returned that status error after one attempt
C10_Witness ==
    /\ apc = "returned"
    /\ max_retry_attempts = 3
    /\ result.err.kind = "status" /\ result.err.status = status
    /\ NAttempts = 1 /\ NDelays = 0

\* C11 (as claimed): whenever the upstream answers a non-200 status, the call
\* returns the error of that status: once such a response has arrived and the
\* body read is over, the call has returned the authorization failure (403) or
\* the status error (any other status).
C11_StatusAlwaysReturned ==
    (status \notin {0, OkStatus} /\ apc # "aread") =>
        /\ apc = "returned"
        /\ result.err.kind = (IF status = DeniedStatus THEN "denied" ELSE "status")

\* C11 (amended): a 403 answer makes the call return the authorization failure
\* and no URL at once.  Any other non-200 answer makes it read the error body
\* and return, with no URL, the error naming that status with a body snippet of
\* at most 400 characters; if reading the body raises, the attempt fails like a
\* transport failure instead (retried, or its exception message returned on the
\* last attempt).  In no case is a stream line read or an extraction run for
\* that response.
C11_StatusClassification ==
    /\ [](status = DeniedStatus =>
            apc = "returned" /\ result = [url |-> NoUrl, err |-> DeniedError])
    /\ []((status \notin {0, OkStatus, DeniedStatus} /\ apc = "returned") =>
            /\ result.url = NoUrl
            /\ \/ /\ result.err.kind = "status"
                  /\ result.err.status = status
                  /\ result.err.snippet <= SnippetMax
               \/ /\ failures # <<>>
                  /\ IsLastAttempt(attempt)
                  /\ result.err = ErrorOf(failures[Len(failures)]))
    /\ []((status \notin {0, OkStatus, DeniedStatus} /\ apc # "returned") =>
            \/ apc = "aread"
            \/ apc = "sleep" /\ failures # <<>> /\ ~IsLastAttempt(attempt))
    /\ [][status' \notin {0, OkStatus} =>
            /\ nlines' = nlines
            /\ accumulated' = accumulated
            /\ apc' # "stream"]_vars

\* C11 witness: a 500 answer whose body is longer than 400 characters has been
\* returned as the status error with a 400-character snippet
C11_Witness ==
    /\ apc = "returned"
    /\ status = 500
    /\ result.err.kind = "status" /\ result.err.status = 500
    /\ result.err.snippet = SnippetMax
    /\ result.url = NoUrl

\* C12: extraction miss is terminal: a 200 stream that ends without an early
\* return gets exactly one final extraction pass over the whole accumulated
\* text; when that finds no URL the call returns the "no extractable URL"
\* failure in that same step, a message of its own kind, with no delay and no
\* further attempt even when attempts remain.
C12_MissTerminal ==
    /\ Count(trace, "end") <= 1
    /\ \A i \in 1..Len(trace) :
        trace[i] = "end" =>
            /\ i = Len(trace) /\ i > 1 /\ trace[i - 1] = "attempt"
            /\ status = OkStatus
            /\ apc = "returned"
            /\ result.url = TryContentExtraction(accumulated)
            /\ result.url = NoUrl =>
                /\ result.err = NoUrlError
                /\ result.err.kind \notin
                       {"timeout", "exception", "status", "denied",
                        "all_retries_failed", "no_api_key", "none"}
                /\ NAttempts = Len(failures) + 1
                /\ NDelays = Len(failures)
    /\ (apc = "returned" /\ result.err.kind = "no_url") =>
            trace # <<>> /\ trace[Len(trace)] = "end"

\* C12 witness: the first of three configured attempts read a stream holding
\* text without a URL to its end; the call returned the miss after one attempt
C12_Witness ==
    /\ apc = "returned"
    /\ max_retry_attempts = 3
    /\ accumulated # <<>>
    /\ result = [url |-> NoUrl, err |-> NoUrlError]
    /\ trace = <<"attempt", "end">>

\* the texts of the frames among the first n lines of the response, in order
RECURSIVE TextsRead(_)
TextsRead(n) ==
    IF n = 0 THEN <<>>
    ELSE IF stream[n].kind = "frame" /\ stream[n].chunk.content # "absent"
    THEN Append(TextsRead(n - 1), stream[n].chunk.content)
    ELSE TextsRead(n - 1)

\* C13: a stream line that lacks the frame marker or whose payload is not
\* valid JSON is skipped: reading it leaves the accumulator unchanged, runs no
\* extraction (nothing is returned), does not end the attempt and consumes no
\* retry attempt; the lines after it are still read and processed, so the
\* accumulator always holds exactly the texts of the frames read so far.
C13_MalformedSkipped ==
    /\ [][(apc = "stream" /\ nlines' = nlines + 1
                /\ stream[nlines + 1].kind \in SkippedKinds) =>
            /\ accumulated' = accumulated
            /\ apc' = "stream"
            /\ result' = result
            /\ attempt' = attempt
            /\ trace' = trace
            /\ failures' = failures
            /\ stream' = stream]_vars
    /\ [](apc = "stream" => accumulated = TextsRead(nlines))
    /\ []((apc = "stream" /\ nlines < Len(stream)) =>
            ENABLED (nlines' = nlines + 1 /\ NextApi))

\* C13 witness: a line of bad JSON was read and skipped, and the frame after it
\* was processed and gave the URL, all within the first attempt
C13_Witness ==
    /\ apc = "returned"
    /\ Len(stream) = 2
    /\ stream[1].kind = "bad_json"
    /\ stream[2].kind = "frame"
    /\ nlines = 2
    /\ accumulated = <<"urlA">>
    /\ result = [url |-> "urlA", err |-> NoError]
    /\ trace = <<"attempt">>

\* what the extraction step gives right after line n of the response is read
UrlAfter(n) ==
    IF stream[n].kind # "frame" THEN NoUrl
    ELSE IF TryContentExtraction(TextsRead(n)) # NoUrl
    THEN TryContentExtraction(TextsRead(n))
    ELSE TryStructuredExtraction(stream[n].chunk)

\* reading stops at line n: the sentinel, or a frame that yields a URL
Stops(n) == stream[n].kind = "done" \/ UrlAfter(n) # NoUrl

\* the attempt has returned out of its stream (a URL, or the miss at its end)
ReturnedFromStream ==
    /\ apc = "returned"
    /\ status = OkStatus
    /\ result.url # NoUrl \/ result.err.kind = "no_url"

\* C14: within one attempt the lines are read one by one in arrival order and
\* reading stops at the first frame after which extraction yields a URL (that
\* URL is returned at once), at the sentinel, or at the end of the stream; the
\* accumulator and the result are those of the lines up to that point, and no
\* line after it is read.
C14_SequentialEarlyStop ==
    /\ [][apc = "stream" =>
            /\ nlines' \in {nlines, nlines + 1}
            /\ stream' = stream]_vars
    /\ [](apc = "stream" =>
            /\ nlines <= Len(stream)
            /\ accumulated = TextsRead(nlines)
            /\ \A i \in 1..nlines : ~Stops(i))
    /\ [](ReturnedFromStream =>
            /\ nlines <= Len(stream)
            /\ accumulated = TextsRead(nlines)
            /\ \A i \in 1..(nlines - 1) : ~Stops(i)
            /\ nlines < Len(stream) => Stops(nlines)
            /\ result.url = (IF nlines = 0 THEN NoUrl ELSE UrlAfter(nlines))
            /\ result.url = NoUrl <=> result.err = NoUrlError)

\* C14 witness: the first frame gave a URL and was returned; the second frame,
\* which carries another URL, was never read
C14_Witness ==
    /\ ReturnedFromStream
    /\ Len(stream) = 2
    /\ stream[1].chunk.content = "urlA"
    /\ stream[2].kind = "frame"
    /\ stream[2].chunk.video_url = "urlS"
    /\ nlines = 1
    /\ accumulated = <<"urlA">>
    /\ result.url = "urlA"

\* C15: structured takes precedence in the per-frame extraction step: when the
\* frame after which the call returned carries a present and valid video_url
\* field, the call returned that video_url and not a URL found by scanning the
\* accumulated text.
C15_StructuredPrecedence ==
    (/\ ReturnedFromStream
     /\ nlines >= 1
     /\ stream[nlines].kind = "frame"
     /\ IsValidVideoUrl(stream[nlines].chunk.video_url))
        => result.url = stream[nlines].chunk.video_url

\* C15, the whole-response extractor: a response object with a present and
\* valid video_url field gives that video_url, also when it has no
\* choices / message / content.
C15_WholeResponsePrecedence ==
    (epc = "response_done" /\ IsValidVideoUrl(response.video_url))
        => extracted = [url |-> response.video_url, err |-> "none"]

\* C16: validation gate on every result: every URL an extraction path returns
\* passes _is_valid_video_url (length >= 10, http:// or https://, holds the
\* .mp4 marker, none of the forbidden characters); a candidate that fails the
\* gate is never returned.
C16_ValidationGate ==
    (epc \in {"response_done", "structured_done"} /\ extracted.url # NoUrl)
        => IsValidVideoUrl(extracted.url)

\* C17 (as claimed): delivery errors are soft: a task that issued the video
\* send never issues the hard-failure message, and once it has ended with a
\* downloaded file it has called the cleanup step.
C17_DeliverySoft ==
    \A h \in Handlers :
        /\ "video" \in sent[h] => "hard_failure" \notin sent[h]
        /\ (pc[h] = "task_done" /\ "video" \in sent[h] /\ tres[h] = "url_path")
                => h \in cleanup_called

\* C17 (amended): a delivery that exceeds the 90-second wait gets the soft
\* warning, and when that warning is sent the cleanup step (for a downloaded
\* file) runs; a delivery that raises gets the soft warning only when the
\* exception text holds "WebSocket API call timeout" and the hard-failure
\* message otherwise (as does a failing send of the timeout warning), and in
\* both cases the cleanup step is skipped; the in-flight entry is released on
\* every one of these paths.
C17_DeliveryOutcomes ==
    /\ [][\A h \in Handlers :
            /\ (pc[h] = "task_deliver" /\ pc'[h] \in {"task_warn_timeout", "task_warn_ws"}) =>
                    /\ sent'[h] = sent[h] \cup {"soft_warning"}
                    /\ "hard_failure" \notin sent'[h]
                    /\ cleanup_called' = cleanup_called
            /\ (pc[h] \in {"task_deliver", "task_warn_timeout"} /\ pc'[h] = "task_send_fail") =>
                    /\ sent'[h] = sent[h] \cup {"hard_failure"}
                    /\ cleanup_called' = cleanup_called
            /\ (pc[h] = "task_warn_timeout" /\ pc'[h] = "task_done") =>
                    /\ h \in cleanup_called' <=> tres[h] = "url_path"
                    /\ released'[h] # "none"
            /\ (pc[h] \in {"task_warn_ws", "task_send_fail"} /\ pc'[h] # pc[h]) =>
                    /\ h \notin cleanup_called'
                    /\ pc'[h] \in {"task_done", "task_send_exc"}
            /\ (pc[h] \in TaskRunning /\ pc'[h] = "task_done") =>
                    released'[h] # "none"]_vars
    /\ [](\A h \in Handlers :
            /\ "hard_failure" \in sent[h] => "video" \in sent[h]
            /\ pc[h] = "task_done" => released[h] # "none"
            /\ (h \in cleanup_called /\ "video" \in sent[h]) =>
                    sent[h] \in {{"video"}, {"video", "soft_warning"}})

\* C17 witness: a task with a downloaded file whose video send raised an
\* ordinary exception has ended: hard-failure message sent, cleanup never
\* called, in-flight entry released
C17_Witness ==
    \E h \in Handlers :
        /\ pc[h] = "task_done"
        /\ tres[h] = "url_path"
        /\ sent[h] = {"video", "hard_failure"}
        /\ h \notin cleanup_called
        /\ released[h] = "deleted"

\* C18: with no API key configured the call returns the configuration error
\* in its first step, whatever max_retry_attempts is: no upstream attempt, no
\* response, no failure handling and no retry delay ever happens.
C18_NoKeyNoAttempt ==
    ~api_key =>
        /\ apc \in {"call", "returned"}
        /\ trace = <<>>
        /\ failures = <<>>
        /\ status = 0
        /\ stream = <<>>
        /\ apc = "returned" => result = [url |-> NoUrl, err |-> NoKeyError]

\* C18 witness: no key and three configured attempts: the call has returned
\* the configuration error with an empty history
C18_Witness ==
    /\ ~api_key
    /\ max_retry_attempts = 3
    /\ apc = "returned"
    /\ result.err.kind = "no_api_key"
    /\ NAttempts = 0 /\ NDelays = 0

\* C19: download is optional and non-fatal: _download_video is called only
\* after the upstream call gave a URL and only when saving is configured; a
\* failed download still gives the remote URL with no local path and no error;
\* a local path is in the result only if saving is configured and the download
\* succeeded.
C19_DownloadOptional ==
    /\ download_tried =>
        /\ save_video_enabled
        /\ api_result.url # NoUrl /\ api_result.err = NoError
        /\ cpc = "returned"
        /\ core_result.url = api_result.url
        /\ core_result.err = NoError
    /\ (cpc = "returned" /\ api_result.url # NoUrl /\ ~save_video_enabled) =>
        /\ ~download_tried
        /\ core_result = [url |-> api_result.url, path |-> NoPath, err |-> NoError]
    /\ core_result.path # NoPath => save_video_enabled /\ download_tried
    /\ core_result.err # NoError =>
        core_result.url = NoUrl /\ core_result.path = NoPath /\ ~download_tried

\* C19 witness: saving is configured, the call gave a URL, the download failed:
\* the core returned the URL with no path and no error
C19_Witness ==
    /\ cpc = "returned"
    /\ save_video_enabled
    /\ download_tried
    /\ core_result = [url |-> "urlA", path |-> NoPath, err |-> NoError]

C21_RejectedLeavesWindow ==
    [][\A h \in Handlers :
          (pc[h] = "cmd_idle" /\ hres'[h] = "rate_limited")
          => /\ rate_limit_bucket' = rate_limit_bucket
             /\ Len(checkLog') = Len(checkLog) + 1
             /\ ~checkLog'[Len(checkLog')].ok]_vars

\* a command was rejected at a time later than the start of its group's
\* window, with the window still holding the full count
C21_Witness ==
    /\ Len(checkLog) > 0
    /\ LET e == checkLog[Len(checkLog)] IN
        /\ ~e.ok
        /\ e.g \in DOMAIN rate_limit_bucket
        /\ e.t > rate_limit_bucket[e.g].window_start
        /\ rate_limit_bucket[e.g].count = rate_limit_max_calls
        /\ \E h \in Handlers : hres[h] = "rate_limited" /\ hgroup[h] = e.g

\* ---------------------------------------------------------------- C25
\* the count of group g's window that a check made now finds: nothing stored
\* or an expired window counts as 0
CountInEffect(g) ==
    IF g \notin DOMAIN rate_limit_bucket THEN 0
    ELSE IF now - rate_limit_bucket[g].window_start >= rate_limit_window_seconds THEN 0
    ELSE rate_limit_bucket[g].count

\* C25: quota is consumed before the later checks.  With rate limiting on, a
\* command of a group that passes the access check has, in that same step and
\* before its busy check and image check, raised the count of the group's
\* window by one, also when it is answered "busy"; the later rejection for a
\* missing image gives nothing back; and a command rejected as busy or for
\* lacking an image ends there: it records no task id and starts no task.
C25_QuotaBeforeChecks ==
    /\ [][\A h \in Handlers :
            (CheckStep(h) /\ hgroup'[h] \in Groups /\ rate_limit_enabled
                /\ hres'[h] \notin AccessErrors)
            => /\ pc'[h] = "cmd_extract" \/ hres'[h] = "busy"
               /\ hgroup'[h] \in DOMAIN rate_limit_bucket'
               /\ rate_limit_bucket'[hgroup'[h]].count = CountInEffect(hgroup'[h]) + 1]_vars
    /\ [][\A h \in Handlers :
            (hres'[h] # hres[h] /\ hres'[h] \in {"busy", "no_image"})
            => /\ hres'[h] = "no_image" =>
                    (pc[h] = "cmd_extract" /\ rate_limit_bucket' = rate_limit_bucket)
               /\ pc'[h] = "cmd_done"
               /\ processing_tasks' = processing_tasks]_vars
    /\ [](\A h \in Handlers :
            hres[h] \in {"busy", "no_image"}
            => /\ pc[h] = "cmd_done"
               /\ \A u \in DOMAIN processing_tasks : processing_tasks[u] # h)

\* C25 witness: a command of a group was accepted and a second one, rejected as
\* busy, filled the group's window; after the window expired a third one was
\* rejected for lacking an image and is the one call counted in the new window
C25_Witness ==
    \E a, b, c \in Handlers :
        /\ hres[a] = "accepted" /\ hres[b] = "busy" /\ hres[c] = "no_image"
        /\ hgroup[a] = "g1" /\ hgroup[b] = "g1" /\ hgroup[c] = "g1"
        /\ rate_limit_enabled /\ rate_limit_max_calls = 2
        /\ Len(checkLog) = 3
        /\ \A n \in 1..3 : checkLog[n].ok /\ checkLog[n].g = "g1"
        /\ checkLog[2].t - checkLog[1].t < rate_limit_window_seconds
        /\ checkLog[3].t - checkLog[1].t >= rate_limit_window_seconds
        /\ "g1" \in DOMAIN rate_limit_bucket
        /\ rate_limit_bucket["g1"] = [window_start |-> checkLog[3].t, count |-> 1]

\* ---------------------------------------------------------------- C22
\* the matches a strategy validates, in the order it validates them
HtmlMatches(text) ==
    IF (\E i \in 1..Len(text) : text[i] \in HasVideoTag)
       /\ (\E i \in 1..Len(text) : text[i] \in HasSrcAttr)
    THEN <<Search(text, "video"), Search(text, "src")>>
    ELSE <<>>

MarkdownMatches(text) == <<Search(text, "link"), Search(text, "ref")>>

\* u is what a strategy makes of its matches: the first of them that passes
\* the validation, or nothing when none passes
YieldOf(u, matches) ==
    IF \E i \in 1..Len(matches) : IsValidVideoUrl(matches[i])
    THEN \E i \in 1..Len(matches) :
            /\ u = matches[i]
            /\ IsValidVideoUrl(u)
            /\ \A j \in 1..(i - 1) : ~IsValidVideoUrl(matches[j])
    ELSE u = NoUrl

\* C22: the text extraction applies its strategies in the order HTML tag, bare
\* URL, Markdown link and returns what the first strategy with a valid URL
\* yields: the bare URL only if the HTML strategy yields nothing, the Markdown
\* URL only if both yield nothing; inside a strategy a match that fails the
\* validation is dropped and the search goes on as if it were no match, so what
\* is returned always passes the validation.
C22_StrategyOrder ==
    epc = "content_done" =>
        LET text == response.content
            h == ExtractFromHtmlTag(text)
            d == ExtractDirectUrl(text)
            m == ExtractFromMarkdown(text)
            u == extracted.url
        IN /\ YieldOf(h, HtmlMatches(text))
           /\ YieldOf(d, FindAllDirect(text))
           /\ YieldOf(m, MarkdownMatches(text))
           /\ h # NoUrl => u = h
           /\ (h = NoUrl /\ d # NoUrl) => u = d
           /\ (h = NoUrl /\ d = NoUrl) => u = m
           /\ u # NoUrl => IsValidVideoUrl(u)

\* C22 witness: a text with a bare URL followed by a video tag: the tag's URL
\* is returned although the bare URL comes first in the text
C22_Witness ==
    /\ epc = "content_done"
    /\ response.content = <<"urlA", "tagV">>
    /\ extracted.url = "urlV"

\* ---------------------------------------------------------------- C23
\* the lines of the response before its sentinel (all of them without one)
RECURSIVE LinesBeforeDone(_)
LinesBeforeDone(n) ==
    IF n = Len(stream) THEN n
    ELSE IF stream[n + 1].kind = "done" THEN n
    ELSE LinesBeforeDone(n + 1)

\* the response carries text only: no frame has a video_url field
TextDeltasOnly ==
    \A i \in 1..Len(stream) : stream[i].chunk.video_url = NoUrl

\* C23: early extraction agrees with full extraction: when a call returns out
\* of a stream of text deltas, what it returns is what the text extraction
\* gives on the complete text of that stream (all its deltas up to the
\* sentinel, joined), so an early return is never a URL cut short.
C23_EarlyAgreesWithFull ==
    (ReturnedFromStream /\ TextDeltasOnly)
        => result.url = TryContentExtraction(TextsRead(LinesBeforeDone(0)))

\* ---------------------------------------------------------------- C24
\* C24: the text accumulator is per attempt: when an attempt starts to read
\* its response the accumulator is empty, while the response is read it only
\* grows by appending, and it always holds exactly the texts of the frames read
\* from the response of the current attempt; so what the call returns out of a
\* stream is extracted from that attempt's text alone, whatever text an earlier
\* attempt had received before it failed.
C24_AccumulatorPerAttempt ==
    /\ [][(apc = "request" /\ apc' = "stream") =>
            (accumulated' = <<>> /\ nlines' = 0)]_vars
    /\ [][apc = "stream" =>
            /\ attempt' = attempt
            /\ \/ accumulated' = accumulated
               \/ \E f \in Fragments : accumulated' = Append(accumulated, f)]_vars
    /\ []((apc = "stream" \/ ReturnedFromStream) => accumulated = TextsRead(nlines))
    /\ [](ReturnedFromStream =>
            result.url = (IF nlines = 0 THEN NoUrl ELSE UrlAfter(nlines)))

\* C24 witness: an attempt received text and then failed; a later attempt read
\* one frame, holds that frame's text only and returned its URL
C24_Witness ==
    /\ lost
    /\ ReturnedFromStream
    /\ attempt >= 1
    /\ nlines = 1
    /\ accumulated = <<"urlA">>
    /\ result.url = "urlA"

====
